---- MODULE Spec2Model ----
(***************************************************************************)
(* A model of github_to_text.py: the chunk assembler (process_repository), *)
(* the Python line state machine (optimize_python_code), the file selector *)
(* (walk_repository / should_include_file), the content optimizer         *)
(* (optimize_code_content and the transforms it dispatches to) and the     *)
(* run itself (main / clone_repository).                                   *)
(*                                                                         *)
(* Texts are sequences of characters (one-character strings), so that      *)
(* len(), concatenation, split and the regular-expression substitutions    *)
(* of the source are computed, not assumed.                                *)
(***************************************************************************)
EXTENDS Integers, Sequences, FiniteSets, TLC

VARIABLES
    \* ---- process_repository ----
    files,              \* formatted records, in traversal order (the values format_file_content returns)
    repo_header,        \* the repository header text; <<>> when include_repo_info is false
    chunk_size,         \* args.chunk_size
    idx,                \* loop index of "for idx, file_path in enumerate(files)" (1-based here)
    current_chunk,      \* the accumulator
    output_chunks,      \* the result list
    cpc,                \* position in process_repository: "idle" | "loop" | "done"
    \* ---- optimize_python_code ----
    py_lines,           \* content.split('\n')
    preserve_comments,  \* args.preserve_comments
    preserve_docstrings,\* args.preserve_docstrings
    py_i,               \* index of the line the loop reads next
    in_multiline_string,
    string_delimiter,   \* "None", or the delimiter that opened the string
    optimized_lines,
    emitted_from,       \* for each element of optimized_lines, the index of the input line it came from
    branch_taken,       \* for each line read, the branch of the loop body that handled it
    py_result,          \* the returned text
    ppc,                \* position in optimize_python_code: "idle" | "loop" | "done"
    \* ---- walk_repository ----
    repo_path,          \* the root given to os.walk, as path segments
    args,               \* exclude_dirs, exclude_files, max_file_size, include_extensions, exclude_extensions
    ignore_patterns,    \* the glob patterns
    fault,              \* the file of the tree that cannot be stat'ed or read, if any
    walk_stack,         \* directories os.walk has still to yield (relative to repo_path)
    pending_files,      \* files of the directory being visited that are still to be checked
    visited,            \* directories os.walk has yielded
    files_to_process,
    ignored_dirs_count,
    ignored_files_count,
    wpc,                \* position in walk_repository: "idle" | "walk" | "done" | "raised"
    \* ---- optimize_code_content ----
    input_content,      \* the content the function was called with
    content,            \* the local variable content
    file_ext,
    optimize_level,
    keep_comments,      \* the preserve_comments argument of this call
    keep_docstrings,    \* the preserve_docstrings argument of this call
    opc,                \* position in optimize_code_content: "idle" | "level1" | "level2" | "level3" | "done"
    \* ---- main ----
    main_args,          \* repo (True when --repo is given, else --local), create_example_ignore
    world,              \* what the run meets: how git clone ends, whether processing and writing fail
    temp_dir_exists,    \* the directory tempfile.mkdtemp() made is on disk
    cleanup_needed,
    processing_started, \* process_repository has been called
    pending_exception,  \* an exception is propagating out of the try block
    exit_code,          \* the exit status of the process; -1 while it runs
    mpc                 \* position in main: "idle" | "start" | "source" | "process" | "write" | "finally" | "exited"

chunkVars == <<files, repo_header, chunk_size, idx, current_chunk, output_chunks, cpc>>

pyVars == <<py_lines, preserve_comments, preserve_docstrings, py_i, in_multiline_string,
            string_delimiter, optimized_lines, emitted_from, branch_taken, py_result, ppc>>

walkVars == <<repo_path, args, ignore_patterns, fault, walk_stack, pending_files, visited,
              files_to_process, ignored_dirs_count, ignored_files_count, wpc>>

optVars == <<input_content, content, file_ext, optimize_level, keep_comments, keep_docstrings, opc>>

mainVars == <<main_args, world, temp_dir_exists, cleanup_needed, processing_started,
              pending_exception, exit_code, mpc>>

vars == <<chunkVars, pyVars, walkVars, optVars, mainVars>>

\* What an action of one component leaves alone: the other components.
notChunk == <<pyVars, walkVars, optVars, mainVars>>

notPy == <<chunkVars, walkVars, optVars, mainVars>>

notWalk == <<chunkVars, pyVars, optVars, mainVars>>

notOpt == <<chunkVars, pyVars, walkVars, mainVars>>

notMain == <<chunkVars, pyVars, walkVars, optVars>>

(***************************************************************************)
(* Generic helpers on sequences.                                           *)
(***************************************************************************)
RECURSIVE Concat(_)
Concat(ss) == IF ss = <<>> THEN <<>> ELSE Head(ss) \o Concat(Tail(ss))

RECURSIVE SeqsUpTo(_, _)
SeqsUpTo(S, n) ==
    IF n = 0 THEN {<<>>}
    ELSE LET shorter == SeqsUpTo(S, n - 1)
         IN shorter \cup {Append(s, x) : s \in {t \in shorter : Len(t) = n - 1}, x \in S}

Repeat(x, n) == [k \in 1..n |-> x]

Max(S) == CHOOSE m \in S : \A x \in S : x <= m

Range(s) == {s[k] : k \in 1..Len(s)}

(***************************************************************************)
(* Bounds of the chunk assembler model.                                    *)
(***************************************************************************)
MaxFiles == 3
MaxRecordSize == 3
MaxHeaderSize == 3
MaxChunkSize == 4

(***************************************************************************)
(* process_repository                                                      *)
(*                                                                         *)
(* The i-th record of size n is the text <<i, ..., i>> (n characters), the *)
(* header is a text of 0s: every character carries the record it came      *)
(* from, so that a lost, duplicated, reordered or split record changes the *)
(* text or the chunk it lies in.  format_file_content never returns the    *)
(* empty string (every output shape adds at least a line break), and a     *)
(* header, when included, is never empty.                                  *)
(***************************************************************************)
RecordText(i, n) == Repeat(i, n)

HeaderText(n) == Repeat(0, n)

\* A seal that forgets the chunk it seals.
AccumulateMutDropSealed(cur, out, file_content, bound) ==
    IF bound > 0 /\ Len(cur) + Len(file_content) > bound
    THEN [current_chunk |-> file_content, output_chunks |-> out]
    ELSE [current_chunk |-> cur \o file_content, output_chunks |-> out]

\* A seal that takes the record into the sealed chunk and restarts empty.
AccumulateMutSealAfter(cur, out, file_content, bound) ==
    IF bound > 0 /\ Len(cur) + Len(file_content) > bound
    THEN [current_chunk |-> <<>>, output_chunks |-> Append(out, cur \o file_content)]
    ELSE [current_chunk |-> cur \o file_content, output_chunks |-> out]

\* The bound compared without the "chunk_size > 0" test.
AccumulateMutNoZeroTest(cur, out, file_content, bound) ==
    IF Len(cur) + Len(file_content) > bound
    THEN [current_chunk |-> file_content, output_chunks |-> Append(out, cur)]
    ELSE [current_chunk |-> cur \o file_content, output_chunks |-> out]

\* One iteration of the loop body, lines 723-730: the pair it leaves in
\* (current_chunk, output_chunks).
Accumulate(cur, out, file_content, bound) ==
    IF bound > 0
    THEN IF Len(cur) + Len(file_content) > bound
         THEN [current_chunk |-> file_content, output_chunks |-> Append(out, cur)]
         ELSE [current_chunk |-> cur \o file_content, output_chunks |-> out]
    ELSE [current_chunk |-> cur \o file_content, output_chunks |-> out]

\* Lines 732-735: the last accumulator is sealed when it is not empty.
SealLast(cur, out) == IF cur # <<>> THEN Append(out, cur) ELSE out

\* The whole function on given records, header and bound (lines 696-735).
RECURSIVE RunLoop(_, _, _, _)
RunLoop(recs, cur, out, bound) ==
    IF recs = <<>> THEN SealLast(cur, out)
    ELSE LET r == Accumulate(cur, out, Head(recs), bound)
         IN RunLoop(Tail(recs), r.current_chunk, r.output_chunks, bound)

process_repository(recs, header, bound) == RunLoop(recs, header, <<>>, bound)

ChunkIdle ==
    /\ files = <<>> /\ repo_header = <<>> /\ chunk_size = 0 /\ idx = 1
    /\ current_chunk = <<>> /\ output_chunks = <<>> /\ cpc = "idle"

InitChunk ==
    /\ \E sizes \in SeqsUpTo(1..MaxRecordSize, MaxFiles) :
          files = [i \in 1..Len(sizes) |-> RecordText(i, sizes[i])]
    /\ \E h \in 0..MaxHeaderSize : repo_header = HeaderText(h)
    /\ chunk_size \in 0..MaxChunkSize
    /\ idx = 1
    /\ current_chunk = repo_header
    /\ output_chunks = <<>>
    /\ cpc = "loop"

\* One iteration of "for idx, file_path in enumerate(files)".
ProcessFile ==
    /\ cpc = "loop"
    /\ idx <= Len(files)
    /\ LET r == Accumulate(current_chunk, output_chunks, files[idx], chunk_size)
       IN /\ current_chunk' = r.current_chunk
          /\ output_chunks' = r.output_chunks
    /\ idx' = idx + 1
    /\ UNCHANGED <<files, repo_header, chunk_size, cpc, notChunk>>

\* The end of the loop: the last chunk, and the return.
ReturnChunks ==
    /\ cpc = "loop"
    /\ idx > Len(files)
    /\ output_chunks' = SealLast(current_chunk, output_chunks)
    /\ cpc' = "done"
    /\ UNCHANGED <<files, repo_header, chunk_size, idx, current_chunk, notChunk>>

NextChunk == ProcessFile \/ ReturnChunks

(***************************************************************************)
(* Characters and lines.  A line is a sequence of characters; the two      *)
(* triple-quote delimiters are single elements of a line, so that          *)
(* "delimiter in line" is membership.                                      *)
(***************************************************************************)
DQ == "\"\"\""

SQ == "'''"

Space == " "

Tab == "\t"

\* What the regular expressions' \s and str.strip() take for whitespace.
IsSpace(c) == c \in {Space, Tab, "\n"}

RECURSIVE lstrip(_)
lstrip(line) ==
    IF line # <<>> /\ IsSpace(Head(line)) THEN lstrip(Tail(line)) ELSE line

RECURSIVE rstrip(_)
rstrip(line) ==
    IF line # <<>> /\ IsSpace(line[Len(line)])
    THEN rstrip(SubSeq(line, 1, Len(line) - 1))
    ELSE line

strip(line) == rstrip(lstrip(line))

\* The index of the first character at or after i that is not whitespace
\* (Len(line) + 1 when there is none).
RECURSIVE SkipSpaces(_, _)
SkipSpaces(line, i) ==
    IF i <= Len(line) /\ IsSpace(line[i]) THEN SkipSpaces(line, i + 1) ELSE i

MatchesAt(line, pat, j) ==
    /\ j + Len(pat) - 1 <= Len(line)
    /\ \A k \in 1..Len(pat) : line[j + k - 1] = pat[k]

\* re.sub(r'\s*PAT\s*', 'PAT', line): scanning from the left, every match of
\* optional whitespace, PAT, optional whitespace is replaced by PAT alone.
RECURSIVE ReSubFrom(_, _, _)
ReSubFrom(line, pat, i) ==
    IF i > Len(line) THEN <<>>
    ELSE LET j == SkipSpaces(line, i)
         IN IF MatchesAt(line, pat, j)
            THEN pat \o ReSubFrom(line, pat, SkipSpaces(line, j + Len(pat)))
            ELSE <<line[i]>> \o ReSubFrom(line, pat, i + 1)

ReSub(line, pat) == ReSubFrom(line, pat, 1)

\* Lines 255-265, in their order.
PythonOperators ==
    << <<"=">>, <<"+">>, <<"-">>, <<"*">>, <<"/">>, <<"<">>, <<">">>,
       <<"=", "=">>, <<"!", "=">>, <<"<", "=">>, <<">", "=">> >>

RECURSIVE ReSubAll(_, _)
ReSubAll(line, pats) ==
    IF pats = <<>> THEN line ELSE ReSubAll(ReSub(line, Head(pats)), Tail(pats))

\* re.match(r'^(\s*)', original_line).group(1)
LeadingSpace(line) == SubSeq(line, 1, SkipSpaces(line, 1) - 1)

\* re.sub(r'\t', ' ', indent)
TabsToSpaces(indent) == [k \in 1..Len(indent) |-> IF indent[k] = Tab THEN Space ELSE indent[k]]

\* indent.replace('    ', ' '): from the left, each group of four spaces
\* becomes one.
RECURSIVE ReplaceFourSpaces(_)
ReplaceFourSpaces(indent) ==
    IF Len(indent) >= 4 /\ \A k \in 1..4 : indent[k] = Space
    THEN <<Space>> \o ReplaceFourSpaces(SubSeq(indent, 5, Len(indent)))
    ELSE IF indent = <<>> THEN <<>>
    ELSE <<Head(indent)>> \o ReplaceFourSpaces(Tail(indent))

\* Lines 268-274.
indent_level(original_line) ==
    Len(ReplaceFourSpaces(TabsToSpaces(LeadingSpace(original_line))))

\* Lines 255-275: what a line handled in NORMAL state is emitted as.
OptimizeNormalLine(original_line) ==
    Repeat(Space, indent_level(original_line))
        \o strip(ReSubAll(original_line, PythonOperators))

HasDelimiter(line) == DQ \in Range(line) \/ SQ \in Range(line)

StartsWith(line, c) == line # <<>> /\ Head(line) = c

\* The toggle test of line 237 replaced by the test of line 230: any
\* delimiter closes the string.
LineBranchMutAnyCloses(line, inms, delim, pc) ==
    IF HasDelimiter(line) /\ ~inms THEN "open"
    ELSE IF HasDelimiter(line) THEN "close"
    ELSE IF inms THEN "inside"
    ELSE IF strip(line) = <<>> THEN "skip"
    ELSE IF StartsWith(strip(line), "#") /\ ~pc THEN "skip"
    ELSE "emit"

\* The branch of the loop body (lines 225-277) that handles a line:
\*   "open"   lines 231-236      "close"  lines 237-241
\*   "inside" lines 243-246      "skip"   lines 249-252
\*   "emit"   lines 255-277
LineBranch(line, inms, delim, pc) ==
    IF HasDelimiter(line) /\ ~inms THEN "open"
    ELSE IF HasDelimiter(line) /\ delim \in Range(line) THEN "close"
    ELSE IF inms THEN "inside"
    ELSE IF strip(line) = <<>> THEN "skip"
    ELSE IF StartsWith(strip(line), "#") /\ ~pc THEN "skip"
    ELSE "emit"

\* The "if in_multiline_string" branch (lines 243-246) falling through to
\* the transforms of NORMAL state when the line is kept.
LineOutputMutInsideOptimized(line, branch, pd) ==
    CASE branch \in {"open", "close"} -> IF pd THEN <<line>> ELSE <<>>
      [] branch = "inside" -> IF pd THEN <<OptimizeNormalLine(line)>> ELSE <<>>
      [] branch = "skip" -> <<>>
      [] branch = "emit" -> <<OptimizeNormalLine(line)>>

\* What the branch appends to optimized_lines: <<>> or one line.
LineOutput(line, branch, pd) ==
    CASE branch \in {"open", "close", "inside"} -> IF pd THEN <<line>> ELSE <<>>
      [] branch = "skip" -> <<>>
      [] branch = "emit" -> <<OptimizeNormalLine(line)>>

\* '\n'.join(optimized_lines)
RECURSIVE Join(_)
Join(ls) ==
    IF ls = <<>> THEN <<>>
    ELSE IF Len(ls) = 1 THEN ls[1]
    ELSE ls[1] \o <<"\n">> \o Join(Tail(ls))

(***************************************************************************)
(* The lines the inputs of optimize_python_code are built from, and the    *)
(* bound on their number.                                                  *)
(***************************************************************************)
MaxLines == 4

CodeLine == <<Space, Space, Space, Space, "x", Space, "=", Space, "1">>

LinePool ==
    { <<DQ>>,                   \* """
      <<SQ>>,                   \* '''
      <<DQ, "d", DQ>>,          \* """d"""   a one-line docstring
      <<SQ, Space, DQ>>,        \* ''' """   opens a ''' string; the """ is its content
      CodeLine,                 \*     x = 1
      <<"#", "c">>,             \* #c
      <<>> }                    \* a blank line

PyIdle ==
    /\ py_lines = <<>> /\ preserve_comments = FALSE /\ preserve_docstrings = FALSE
    /\ py_i = 1 /\ in_multiline_string = FALSE /\ string_delimiter = "None"
    /\ optimized_lines = <<>> /\ emitted_from = <<>> /\ branch_taken = <<>>
    /\ py_result = <<>> /\ ppc = "idle"

\* Lines 220-223.
InitPy ==
    /\ py_lines \in SeqsUpTo(LinePool, MaxLines)
    /\ preserve_comments \in BOOLEAN
    /\ preserve_docstrings \in BOOLEAN
    /\ py_i = 1
    /\ in_multiline_string = FALSE
    /\ string_delimiter = "None"
    /\ optimized_lines = <<>>
    /\ emitted_from = <<>>
    /\ branch_taken = <<>>
    /\ py_result = <<>>
    /\ ppc = "loop"

\* One iteration of "for line in lines" (lines 225-277).
PyLine ==
    /\ ppc = "loop"
    /\ py_i <= Len(py_lines)
    /\ LET line == py_lines[py_i]
           branch == LineBranch(line, in_multiline_string, string_delimiter, preserve_comments)
           out == LineOutput(line, branch, preserve_docstrings)
       IN /\ in_multiline_string' =
                (CASE branch = "open" -> TRUE
                   [] branch = "close" -> FALSE
                   [] OTHER -> in_multiline_string)
          /\ string_delimiter' =
                (IF branch = "open"
                 THEN (IF DQ \in Range(line) THEN DQ ELSE SQ)
                 ELSE string_delimiter)
          /\ optimized_lines' = optimized_lines \o out
          /\ emitted_from' = emitted_from \o [k \in 1..Len(out) |-> py_i]
          /\ branch_taken' = Append(branch_taken, branch)
    /\ py_i' = py_i + 1
    /\ UNCHANGED <<py_lines, preserve_comments, preserve_docstrings, py_result, ppc, notPy>>

\* Line 279.
PyReturn ==
    /\ ppc = "loop"
    /\ py_i > Len(py_lines)
    /\ py_result' = Join(optimized_lines)
    /\ ppc' = "done"
    /\ UNCHANGED <<py_lines, preserve_comments, preserve_docstrings, py_i, in_multiline_string,
                   string_delimiter, optimized_lines, emitted_from, branch_taken, notPy>>

NextPy == PyLine \/ PyReturn

(***************************************************************************)
(* optimize_python_code on two code lines that differ only in the width of *)
(* their leading indentation (spaces only).                                *)
(***************************************************************************)
MaxIndent == 8

IndentedLine(w) == Repeat(Space, w) \o <<"x">>

InitIndent ==
    /\ \E w1, w2 \in 0..MaxIndent : py_lines = <<IndentedLine(w1), IndentedLine(w2)>>
    /\ preserve_comments \in BOOLEAN
    /\ preserve_docstrings \in BOOLEAN
    /\ py_i = 1
    /\ in_multiline_string = FALSE
    /\ string_delimiter = "None"
    /\ optimized_lines = <<>>
    /\ emitted_from = <<>>
    /\ branch_taken = <<>>
    /\ py_result = <<>>
    /\ ppc = "loop"

(***************************************************************************)
(* The file selector.                                                      *)
(*                                                                         *)
(* A name is a sequence of tokens (a stem, then an extension when it has   *)
(* one), a path is a sequence of names, and the string of a path is its    *)
(* names joined by "/".  fnmatch works on that flat string: "*" matches    *)
(* any run of tokens, "/" included.                                        *)
(***************************************************************************)
Dot == <<".">>

dSrc == <<"src">>

dBuild == <<"build">>

dRepo == <<"repo">>

fA == <<"a", ".py">>

fB == <<"b", ".dat">>

fBig == <<"big", ".py">>

fUp == <<"b", ".PY">>

fPng == <<"c", ".png">>

\* The tree below the root: what os.walk lists in each directory.
Listing(d) ==
    CASE d = <<>> -> [dirs |-> <<dSrc, dBuild>>, files |-> <<fA, fB, fBig, fPng>>]
      [] d = <<dSrc>> -> [dirs |-> <<dBuild>>, files |-> <<fA, fUp>>]
      [] d = <<dSrc, dBuild>> -> [dirs |-> <<>>, files |-> <<fA>>]
      [] d = <<dBuild>> -> [dirs |-> <<>>, files |-> <<fA>>]

FilesIn(d) == {d \o <<Listing(d).files[k]>> : k \in 1..Len(Listing(d).files)}

\* path.stat().st_size
Size(rel) == IF rel[Len(rel)] = fBig THEN 2 ELSE 1

\* Whether the first 8 KiB of the file decode as UTF-8.
DecodesAsText(rel) == rel[Len(rel)] # fPng

NoFault == [file |-> <<>>, kind |-> "none"]

\* A dangling symbolic link ("nostat": stat and open fail) or a file the
\* process may not open ("noread": stat succeeds, open fails).
FaultPool == {NoFault} \cup {[file |-> f, kind |-> k] : f \in {<<fA>>, <<fB>>}, k \in {"nostat", "noread"}}

CanStat(rel, flt) == ~(flt.file = rel /\ flt.kind = "nostat")

CanOpen(rel, flt) == flt.file # rel

\* os.path.join(root, file), root being os.path.join(repo_path, directory).
FilePath(rp, rel) == rp \o rel

\* Path(file_path).parts: the "." segments are dropped.
PathParts(segs) == SelectSeq(segs, LAMBDA x : x # Dot)

\* The names joined by "/": str(path), os.path.join.
RECURSIVE PathStr(_)
PathStr(segs) ==
    IF segs = <<>> THEN <<>>
    ELSE IF Len(segs) = 1 THEN segs[1]
    ELSE segs[1] \o <<"/">> \o PathStr(Tail(segs))

\* fnmatch.fnmatch(name, pat) for patterns made of literals and "*".
RECURSIVE fnmatch(_, _)
fnmatch(name, pat) ==
    IF pat = <<>> THEN name = <<>>
    ELSE IF Head(pat) = "*"
         THEN fnmatch(name, Tail(pat)) \/ (name # <<>> /\ fnmatch(Tail(name), pat))
         ELSE name # <<>> /\ Head(name) = Head(pat) /\ fnmatch(Tail(name), Tail(pat))

\* "all" for "any".
path_matches_patternMutAll(path, patterns) == \A pattern \in patterns : fnmatch(path, pattern)

\* Lines 539-544.
path_matches_pattern(path, patterns) == \E pattern \in patterns : fnmatch(path, pattern)

\* path.suffix: the extension token of the name, "" when it has none.
Suffix(name) == IF Len(name) >= 2 THEN name[Len(name)] ELSE ""

\* str.lower() on the extensions of the tree.
Lower(ext) == IF ext = ".PY" THEN ".py" ELSE ext

\* mimetypes.guess_type(file_path)[0], which ignores the case of the extension.
MimeType(name) ==
    CASE Lower(Suffix(name)) = ".py" -> "text/x-python"
      [] Lower(Suffix(name)) = ".png" -> "image/png"
      [] OTHER -> "None"

\* Line 473.
IsTextMime(mime) == mime \in {"text/x-python", "application/json", "application/xml", "application/javascript"}

\* Lines 469-487.
is_binary_file(rel, flt) ==
    IF IsTextMime(MimeType(rel[Len(rel)])) THEN FALSE
    ELSE IF ~CanOpen(rel, flt) THEN TRUE
    ELSE ~DecodesAsText(rel)

\* Lines 547-588: "True", "False", or "raise" when path.stat() raises.
should_include_file(rp, rel, a, patterns, flt) ==
    LET parts == PathParts(FilePath(rp, rel))
        name == parts[Len(parts)]
        ext == Lower(Suffix(name))
    IN IF path_matches_pattern(PathStr(parts), patterns) THEN "False"
       ELSE IF \E excluded_dir \in a.exclude_dirs : excluded_dir \in Range(parts) THEN "False"
       ELSE IF name \in a.exclude_files THEN "False"
       ELSE IF ~CanStat(rel, flt) THEN "raise"
       ELSE IF Size(rel) > a.max_file_size THEN "False"
       ELSE IF a.include_extensions # {} /\ ext \notin a.include_extensions THEN "False"
       ELSE IF ext \in a.exclude_extensions THEN "False"
       ELSE IF is_binary_file(rel, flt) THEN "False"
       ELSE "True"

\* Lines 598-602: os.path.join(os.path.relpath(root, repo_path), d); the
\* relative path of the root itself is ".".
dir_path(d, sub) == PathStr((IF d = <<>> THEN <<Dot>> ELSE d) \o <<sub>>)

\* Lines 604-616: whether subdirectory sub of directory d is removed from dirs.
DirRemoved(d, sub, a, patterns) ==
    \/ sub \in a.exclude_dirs
    \/ path_matches_pattern(dir_path(d, sub), patterns)

\* The subdirectories os.walk descends into, and the files of d.
KeptDirs(d, a, patterns) ==
    LET kept == SelectSeq(Listing(d).dirs, LAMBDA sub : ~DirRemoved(d, sub, a, patterns))
    IN [k \in 1..Len(kept) |-> d \o <<kept[k]>>]

FilesOf(d) == [k \in 1..Len(Listing(d).files) |-> d \o <<Listing(d).files[k]>>]

\* walk_repository as a function of its inputs (lines 591-631): the list
\* returned, or raised when should_include_file raises.
RECURSIVE WalkRun(_, _, _, _, _, _, _)
WalkRun(rp, a, patterns, flt, stack, pending, acc) ==
    IF pending # <<>>
    THEN LET r == should_include_file(rp, Head(pending), a, patterns, flt)
         IN IF r = "raise" THEN [raised |-> TRUE, files |-> acc]
            ELSE WalkRun(rp, a, patterns, flt, stack, Tail(pending),
                         IF r = "True" THEN Append(acc, FilePath(rp, Head(pending))) ELSE acc)
    ELSE IF stack # <<>>
    THEN WalkRun(rp, a, patterns, flt, KeptDirs(Head(stack), a, patterns) \o Tail(stack),
                 FilesOf(Head(stack)), acc)
    ELSE [raised |-> FALSE, files |-> acc]

walk_repository(rp, a, patterns, flt) == WalkRun(rp, a, patterns, flt, <<<<>>>>, <<>>, <<>>)

(***************************************************************************)
(* The inputs of the file selector, and the bound on the ignore set.       *)
(***************************************************************************)
MaxPatterns == 1

RootPool == {<<Dot>>, <<dRepo>>, <<dBuild, dRepo>>}

PatternPool ==
    { <<"*", ".py">>,                   \* *.py
      <<"a", ".py">>,                   \* a.py
      <<"*", "/", "src">>,              \* */src
      <<"src", "/", "*">>,              \* src/*
      <<"*", "*", "/", "src", "/", "*", "*">> }   \* **/src/**

ArgsPool ==
    [ exclude_dirs : {{}, {dBuild}},
      exclude_files : {{}, {fB}},
      max_file_size : {1, 2},
      include_extensions : {{}, {".py"}},
      exclude_extensions : {{}, {".py"}} ]

WalkIdle ==
    /\ repo_path = <<>> /\ ignore_patterns = {} /\ fault = NoFault
    /\ args = [exclude_dirs |-> {}, exclude_files |-> {}, max_file_size |-> 0,
               include_extensions |-> {}, exclude_extensions |-> {}]
    /\ walk_stack = <<>> /\ pending_files = <<>> /\ visited = {}
    /\ files_to_process = <<>> /\ ignored_dirs_count = 0 /\ ignored_files_count = 0
    /\ wpc = "idle"

\* Lines 593-597.
InitWalk ==
    /\ repo_path \in RootPool
    /\ args \in ArgsPool
    /\ ignore_patterns \in {P \in SUBSET PatternPool : Cardinality(P) <= MaxPatterns}
    /\ fault \in FaultPool
    /\ walk_stack = <<<<>>>>
    /\ pending_files = <<>>
    /\ visited = {}
    /\ files_to_process = <<>>
    /\ ignored_dirs_count = 0
    /\ ignored_files_count = 0
    /\ wpc = "walk"

\* os.walk yields the next directory; lines 598-619 remove the excluded and
\* the ignored subdirectories from dirs.
WalkVisitDir ==
    /\ wpc = "walk"
    /\ pending_files = <<>>
    /\ walk_stack # <<>>
    /\ LET d == Head(walk_stack)
           kept == KeptDirs(d, args, ignore_patterns)
       IN /\ walk_stack' = kept \o Tail(walk_stack)
          /\ pending_files' = FilesOf(d)
          /\ visited' = visited \cup {d}
          /\ ignored_dirs_count' = ignored_dirs_count + Len(Listing(d).dirs) - Len(kept)
    /\ UNCHANGED <<repo_path, args, ignore_patterns, fault, files_to_process,
                   ignored_files_count, wpc, notWalk>>

\* One iteration of "for file in files" (lines 621-626) that returns.
WalkCheckFile ==
    /\ wpc = "walk"
    /\ pending_files # <<>>
    /\ LET rel == Head(pending_files)
           r == should_include_file(repo_path, rel, args, ignore_patterns, fault)
       IN /\ r # "raise"
          /\ files_to_process' =
                (IF r = "True" THEN Append(files_to_process, FilePath(repo_path, rel))
                 ELSE files_to_process)
          /\ ignored_files_count' = ignored_files_count + (IF r = "True" THEN 0 ELSE 1)
    /\ pending_files' = Tail(pending_files)
    /\ UNCHANGED <<repo_path, args, ignore_patterns, fault, walk_stack, visited,
                   ignored_dirs_count, wpc, notWalk>>

\* path.stat() raises in should_include_file (line 568); nothing catches it.
WalkRaise ==
    /\ wpc = "walk"
    /\ pending_files # <<>>
    /\ should_include_file(repo_path, Head(pending_files), args, ignore_patterns, fault) = "raise"
    /\ wpc' = "raised"
    /\ UNCHANGED <<repo_path, args, ignore_patterns, fault, walk_stack, pending_files, visited,
                   files_to_process, ignored_dirs_count, ignored_files_count, notWalk>>

\* Line 631.
WalkReturn ==
    /\ wpc = "walk"
    /\ pending_files = <<>>
    /\ walk_stack = <<>>
    /\ wpc' = "done"
    /\ UNCHANGED <<repo_path, args, ignore_patterns, fault, walk_stack, pending_files, visited,
                   files_to_process, ignored_dirs_count, ignored_files_count, notWalk>>

NextWalk == WalkVisitDir \/ WalkCheckFile \/ WalkRaise \/ WalkReturn

(***************************************************************************)
(* The content optimizer on structured data and generic text.  A text is   *)
(* a sequence of characters.  The texts of this model hold no backslash    *)
(* and no number other than a run of digits, so json.loads is modelled on  *)
(* strings without escapes, integers, objects and arrays.                  *)
(***************************************************************************)
Quote == "\""

NewLine == "\n"

Backslash == "\\"

\* content.split('\n')
RECURSIVE Split(_)
Split(t) ==
    IF \A k \in 1..Len(t) : t[k] # NewLine THEN <<t>>
    ELSE LET k == CHOOSE k \in 1..Len(t) : t[k] = NewLine /\ \A m \in 1..(k - 1) : t[m] # NewLine
         IN <<SubSeq(t, 1, k - 1)>> \o Split(SubSeq(t, k + 1, Len(t)))

\* re.sub(r'[ \t]+$', '', content, flags=re.MULTILINE)
RECURSIVE RStripBlanks(_)
RStripBlanks(line) ==
    IF line # <<>> /\ line[Len(line)] \in {Space, Tab}
    THEN RStripBlanks(SubSeq(line, 1, Len(line) - 1))
    ELSE line

StripTrailing(t) == LET ls == Split(t) IN Join([k \in 1..Len(ls) |-> RStripBlanks(ls[k])])

\* The number of line breaks in the whitespace run that starts at i, and
\* the index of the last of them.
RECURSIVE BreaksFrom(_, _)
BreaksFrom(t, i) ==
    IF i > Len(t) \/ ~IsSpace(t[i]) THEN [n |-> 0, last |-> 0]
    ELSE LET r == BreaksFrom(t, i + 1)
         IN IF t[i] = NewLine
            THEN [n |-> r.n + 1, last |-> IF r.last = 0 THEN i ELSE r.last]
            ELSE r

\* re.sub(r'\n\s*\n\s*\n+', '\n\n', content): a whitespace run that starts
\* with a line break and holds three or more is replaced, up to its last
\* line break, by two line breaks.
RECURSIVE CollapseBlankFrom(_, _)
CollapseBlankFrom(t, i) ==
    IF i > Len(t) THEN <<>>
    ELSE IF t[i] = NewLine /\ BreaksFrom(t, i).n >= 3
         THEN <<NewLine, NewLine>> \o CollapseBlankFrom(t, BreaksFrom(t, i).last + 1)
         ELSE <<t[i]>> \o CollapseBlankFrom(t, i + 1)

\* Lines 181-189.
Level1(t) == strip(CollapseBlankFrom(StripTrailing(t), 1))

IsCommentLine(line) ==
    \/ StartsWith(line, "#")
    \/ MatchesAt(line, <<"/", "/">>, 1)
    \/ MatchesAt(line, <<"-", "-">>, 1)

\* The lines optimize_generic_code keeps (lines 388-395).
RECURSIVE GenericLines(_, _)
GenericLines(ls, pc) ==
    IF ls = <<>> THEN <<>>
    ELSE LET line == strip(Head(ls))
         IN IF line = <<>> THEN GenericLines(Tail(ls), pc)
            ELSE IF ~pc /\ IsCommentLine(line) THEN GenericLines(Tail(ls), pc)
            ELSE <<line>> \o GenericLines(Tail(ls), pc)

\* Lines 383-397.
optimize_generic_code(t, pc) == Join(GenericLines(Split(t), pc))

(***************************************************************************)
(* json.loads and json.dumps(parsed, separators=(',', ':')).               *)
(* A value is [t |-> "str", s |-> characters], [t |-> "num", s |-> digits],*)
(* [t |-> "obj", m |-> sequence of <<key, value>>] (a dict: insertion      *)
(* order, a repeated key keeps its place and takes the last value) or      *)
(* [t |-> "arr", m |-> sequence of values].                                *)
(***************************************************************************)
Digits == {"0", "1", "2"}

ParseFail == [ok |-> FALSE, val |-> <<>>, pos |-> 0]

\* The index of the closing quote of the string whose opening quote is at
\* i, or 0: a string ends at the next quote and holds no control character.
RECURSIVE StringEnd(_, _)
StringEnd(t, j) ==
    IF j > Len(t) THEN 0
    ELSE IF t[j] = Quote THEN j
    ELSE IF t[j] \in {NewLine, Tab, Backslash} THEN 0
    ELSE StringEnd(t, j + 1)

ParseString(t, i) ==
    LET j == StringEnd(t, i + 1)
    IN IF j = 0 THEN ParseFail
       ELSE [ok |-> TRUE, val |-> [t |-> "str", s |-> SubSeq(t, i + 1, j - 1)], pos |-> j + 1]

RECURSIVE DigitsEnd(_, _)
DigitsEnd(t, j) == IF j <= Len(t) /\ t[j] \in Digits THEN DigitsEnd(t, j + 1) ELSE j

\* An integer: "0", or a run of digits that does not start with 0.
ParseNumber(t, i) ==
    LET j == IF t[i] = "0" THEN i + 1 ELSE DigitsEnd(t, i)
    IN [ok |-> TRUE, val |-> [t |-> "num", s |-> SubSeq(t, i, j - 1)], pos |-> j]

\* dict[key] = value
DictSet(m, key, value) ==
    IF \E k \in 1..Len(m) : m[k][1] = key
    THEN [k \in 1..Len(m) |-> IF m[k][1] = key THEN <<key, value>> ELSE m[k]]
    ELSE Append(m, <<key, value>>)

RECURSIVE ParseValue(_, _)
RECURSIVE ParseMembers(_, _, _)
RECURSIVE ParseItems(_, _, _)

\* The members of an object from the key expected at i.
ParseMembers(t, i, m) ==
    IF i > Len(t) \/ t[i] # Quote THEN ParseFail
    ELSE LET key == ParseString(t, i)
         IN IF ~key.ok THEN ParseFail
            ELSE LET c == SkipSpaces(t, key.pos)
                 IN IF c > Len(t) \/ t[c] # ":" THEN ParseFail
                    ELSE LET v == ParseValue(t, SkipSpaces(t, c + 1))
                         IN IF ~v.ok THEN ParseFail
                            ELSE LET n == SkipSpaces(t, v.pos)
                                     m2 == DictSet(m, key.val.s, v.val)
                                 IN IF n > Len(t) THEN ParseFail
                                    ELSE IF t[n] = "}"
                                         THEN [ok |-> TRUE, val |-> [t |-> "obj", m |-> m2], pos |-> n + 1]
                                    ELSE IF t[n] = ","
                                         THEN ParseMembers(t, SkipSpaces(t, n + 1), m2)
                                    ELSE ParseFail

\* The items of an array from the value expected at i.
ParseItems(t, i, m) ==
    LET v == ParseValue(t, i)
    IN IF ~v.ok THEN ParseFail
       ELSE LET n == SkipSpaces(t, v.pos)
            IN IF n > Len(t) THEN ParseFail
               ELSE IF t[n] = "]"
                    THEN [ok |-> TRUE, val |-> [t |-> "arr", m |-> Append(m, v.val)], pos |-> n + 1]
               ELSE IF t[n] = ","
                    THEN ParseItems(t, SkipSpaces(t, n + 1), Append(m, v.val))
               ELSE ParseFail

ParseValue(t, i) ==
    IF i > Len(t) THEN ParseFail
    ELSE IF t[i] = Quote THEN ParseString(t, i)
    ELSE IF t[i] \in Digits THEN ParseNumber(t, i)
    ELSE IF t[i] = "{"
         THEN LET n == SkipSpaces(t, i + 1)
              IN IF n <= Len(t) /\ t[n] = "}"
                 THEN [ok |-> TRUE, val |-> [t |-> "obj", m |-> <<>>], pos |-> n + 1]
                 ELSE ParseMembers(t, n, <<>>)
    ELSE IF t[i] = "["
         THEN LET n == SkipSpaces(t, i + 1)
              IN IF n <= Len(t) /\ t[n] = "]"
                 THEN [ok |-> TRUE, val |-> [t |-> "arr", m |-> <<>>], pos |-> n + 1]
                 ELSE ParseItems(t, n, <<>>)
    ELSE ParseFail

\* json.loads(content): a value between optional whitespace, and nothing else.
json_loads(t) ==
    LET v == ParseValue(t, SkipSpaces(t, 1))
    IN IF v.ok /\ SkipSpaces(t, v.pos) = Len(t) + 1 THEN v ELSE ParseFail

\* ensure_ascii (the default of json.dumps): a character outside ASCII is
\* written as its \uXXXX escape.
EscapeChar(c) == IF c = "é" THEN <<Backslash, "u", "0", "0", "e", "9">> ELSE <<c>>

RECURSIVE EscapeString(_)
EscapeString(s) == IF s = <<>> THEN <<>> ELSE EscapeChar(Head(s)) \o EscapeString(Tail(s))

DumpString(s) == <<Quote>> \o EscapeString(s) \o <<Quote>>

RECURSIVE json_dumps(_)
RECURSIVE DumpMembers(_)
RECURSIVE DumpItems(_)

DumpMembers(m) ==
    IF m = <<>> THEN <<>>
    ELSE DumpString(m[1][1]) \o <<":">> \o json_dumps(m[1][2])
            \o (IF Len(m) = 1 THEN <<>> ELSE <<",">> \o DumpMembers(Tail(m)))

DumpItems(m) ==
    IF m = <<>> THEN <<>>
    ELSE json_dumps(m[1]) \o (IF Len(m) = 1 THEN <<>> ELSE <<",">> \o DumpItems(Tail(m)))

json_dumps(v) ==
    CASE v.t = "str" -> DumpString(v.s)
      [] v.t = "num" -> v.s
      [] v.t = "obj" -> <<"{">> \o DumpMembers(v.m) \o <<"}">>
      [] v.t = "arr" -> <<"[">> \o DumpItems(v.m) \o <<"]">>

\* Lines 372-380.
optimize_json_code(t) ==
    LET parsed == json_loads(t)
    IN IF parsed.ok THEN json_dumps(parsed.val) ELSE optimize_generic_code(t, FALSE)

\* re.sub(r'\s+', ' ', content)
RECURSIVE CollapseSpacesFrom(_, _)
CollapseSpacesFrom(t, i) ==
    IF i > Len(t) THEN <<>>
    ELSE IF IsSpace(t[i]) THEN <<Space>> \o CollapseSpacesFrom(t, SkipSpaces(t, i))
    ELSE <<t[i]>> \o CollapseSpacesFrom(t, i + 1)

\* re.sub(r'\s*([CLASS])\s*', r'\1', content)
RECURSIVE ReSubClassFrom(_, _, _)
ReSubClassFrom(t, class, i) ==
    IF i > Len(t) THEN <<>>
    ELSE LET j == SkipSpaces(t, i)
         IN IF j <= Len(t) /\ t[j] \in class
            THEN <<t[j]>> \o ReSubClassFrom(t, class, SkipSpaces(t, j + 1))
            ELSE <<t[i]>> \o ReSubClassFrom(t, class, i + 1)

\* Lines 405-406: the two substitutions of the Level-3 transform.
SqueezeSpaces(t) ==
    ReSubClassFrom(CollapseSpacesFrom(t, 1), {"{", "}", "(", ")", ";", ",", ":"}, 1)

\* Lines 400-408.
aggressive_space_optimization(t, ext) ==
    IF ext \in {".json", ".css", ".scss"} THEN SqueezeSpaces(t) ELSE t

\* The index just after the first "*/" that starts at or after i, or 0.
RECURSIVE CommentEnd(_, _)
CommentEnd(t, i) ==
    IF i + 1 > Len(t) THEN 0
    ELSE IF t[i] = "*" /\ t[i + 1] = "/" THEN i + 2
    ELSE CommentEnd(t, i + 1)

\* re.sub(r'/\*.*?\*/', '', content, flags=re.DOTALL)
RECURSIVE StripBlockComments(_, _)
StripBlockComments(t, i) ==
    IF i > Len(t) THEN <<>>
    ELSE IF MatchesAt(t, <<"/", "*">>, i) /\ CommentEnd(t, i + 2) # 0
         THEN StripBlockComments(t, CommentEnd(t, i + 2))
         ELSE <<t[i]>> \o StripBlockComments(t, i + 1)

\* re.sub(r';\s*}', '}', content)
RECURSIVE DropLastSemicolon(_, _)
DropLastSemicolon(t, i) ==
    IF i > Len(t) THEN <<>>
    ELSE LET j == SkipSpaces(t, i + 1)
         IN IF t[i] = ";" /\ j <= Len(t) /\ t[j] = "}"
            THEN <<"}">> \o DropLastSemicolon(t, j + 1)
            ELSE <<t[i]>> \o DropLastSemicolon(t, i + 1)

\* Lines 351-369.
optimize_css_code(t, pc) ==
    LET uncommented == IF pc THEN t ELSE StripBlockComments(t, 1)
        tightened == ReSubClassFrom(uncommented, {"{", "}", ":", ";", ","}, 1)
    IN Join(GenericLines(Split(DropLastSemicolon(tightened, 1)), TRUE))

\* The loop of optimize_python_code (lines 225-277) over the lines from the
\* k-th on, as a function of the text: the value PyLine accumulates.
RECURSIVE PythonLines(_, _, _, _, _, _)
PythonLines(ls, k, inms, delim, pc, pd) ==
    IF k > Len(ls) THEN <<>>
    ELSE LET line == ls[k]
             branch == LineBranch(line, inms, delim, pc)
         IN LineOutput(line, branch, pd)
            \o PythonLines(ls, k + 1,
                           CASE branch = "open" -> TRUE [] branch = "close" -> FALSE [] OTHER -> inms,
                           IF branch = "open" THEN (IF DQ \in Range(line) THEN DQ ELSE SQ) ELSE delim,
                           pc, pd)

\* Lines 218-279.
optimize_python_code(t, pc, pd) == Join(PythonLines(Split(t), 1, FALSE, "None", pc, pd))

\* Lines 192-208 for the families this specification runs: Python (.py),
\* stylesheets (.css, .scss, .sass), structured data (.json) and the final
\* else branch (any extension of no family).
Level2(t, ext, pc, pd) ==
    IF ext = ".py" THEN optimize_python_code(t, pc, pd)
    ELSE IF ext \in {".css", ".scss", ".sass"} THEN optimize_css_code(t, pc)
    ELSE IF ext = ".json" THEN optimize_json_code(t)
    ELSE optimize_generic_code(t, pc)

(***************************************************************************)
(* The texts optimize_code_content is run on.                              *)
(***************************************************************************)
ContentPool ==
    {
      \* '{"a":"b"}'
      <<"{", Quote, "a", Quote, ":", Quote, "b", Quote, "}">>,
      \* '{"a":"x , y"}'
      <<"{", Quote, "a", Quote, ":", Quote, "x", Space, ",", Space, "y", Quote, "}">>,
      \* '{"a":"é"}'
      <<"{", Quote, "a", Quote, ":", Quote, "é", Quote, "}">>,
      \* '["a",1]'
      <<"[", Quote, "a", Quote, ",", "1", "]">>,
      \* '{ "a" : 1 }'
      <<"{", Space, Quote, "a", Quote, Space, ":", Space, "1", Space, "}">>,
      \* '{"a":1,"a":2}'
      <<"{", Quote, "a", Quote, ":", "1", ",", Quote, "a", Quote, ":", "2", "}">>,
      \* '#c\n{a'
      <<"#", "c", NewLine, "{", "a">>,
      \* '//c\n\n\n\n  x  \n--c'
      <<"/", "/", "c", NewLine, NewLine, NewLine, NewLine, Space, Space, "x", Space, Space, NewLine, "-", "-", "c">>,
      \* '{"a":'
      <<"{", Quote, "a", Quote, ":">>,
      \* ''
      <<>>,
      \* ' \n{"a":["b  c"]}\n'
      <<Space, NewLine, "{", Quote, "a", Quote, ":", "[", Quote, "b", Space, Space, "c", Quote, "]", "}", NewLine>>,
      \* 'a  b { c : d ( 1 ) ; }'
      <<"a", Space, Space, "b", Space, "{", Space, "c", Space, ":", Space, "d", Space, "(", Space, "1", Space, ")",
        Space, ";", Space, "}">>,
      \* '/*c*/a {\n  b : c ;\n}'
      <<"/", "*", "c", "*", "/", "a", Space, "{", NewLine, Space, Space, "b", Space, ":", Space, "c", Space, ";",
        NewLine, "}">>,
      \* 'if x :\n    y = ( 1 )'
      <<"i", "f", Space, "x", Space, ":", NewLine, Space, Space, Space, Space, "y", Space, "=", Space,
        "(", Space, "1", Space, ")">>
    }

ExtPool == {".json", ".txt", ".py", ".css", ".scss", ".sass"}

OptIdle ==
    /\ input_content = <<>> /\ content = <<>> /\ file_ext = "" /\ optimize_level = 0
    /\ keep_comments = FALSE /\ keep_docstrings = FALSE /\ opc = "idle"

\* Line 177: the call.
InitOpt ==
    /\ input_content \in ContentPool
    /\ content = input_content
    /\ file_ext \in ExtPool
    /\ optimize_level \in 1..3
    /\ keep_comments \in BOOLEAN
    /\ keep_docstrings \in BOOLEAN
    /\ opc = "level1"

\* Lines 181-189.
OptLevel1 ==
    /\ opc = "level1"
    /\ content' = (IF optimize_level >= 1 THEN Level1(content) ELSE content)
    /\ opc' = "level2"
    /\ UNCHANGED <<input_content, file_ext, optimize_level, keep_comments, keep_docstrings, notOpt>>

\* Lines 192-208.
OptLevel2 ==
    /\ opc = "level2"
    /\ content' = (IF optimize_level >= 2 THEN Level2(content, file_ext, keep_comments, keep_docstrings) ELSE content)
    /\ opc' = "level3"
    /\ UNCHANGED <<input_content, file_ext, optimize_level, keep_comments, keep_docstrings, notOpt>>

\* Lines 211-215.
OptLevel3 ==
    /\ opc = "level3"
    /\ content' = (IF optimize_level >= 3
                   THEN aggressive_space_optimization(content, file_ext)
                   ELSE content)
    /\ opc' = "done"
    /\ UNCHANGED <<input_content, file_ext, optimize_level, keep_comments, keep_docstrings, notOpt>>

NextOpt == OptLevel1 \/ OptLevel2 \/ OptLevel3

(***************************************************************************)
(* main and clone_repository                                               *)
(*                                                                         *)
(* What the run meets is fixed before it starts: git clone succeeds,       *)
(* exits with a non-zero status (subprocess.CalledProcessError under       *)
(* check=True) or cannot be started at all because there is no git         *)
(* executable (FileNotFoundError, raised by subprocess.run itself);        *)
(* process_repository and write_output each return or raise.  An exception *)
(* that leaves main ends the process with exit status 1, as sys.exit(1)    *)
(* does.                                                                   *)
(***************************************************************************)
GitOutcomes == {"cloned", "CalledProcessError", "FileNotFoundError"}

WorldPool == [git : GitOutcomes, process_raises : BOOLEAN, write_raises : BOOLEAN]

MainArgsPool == [repo : BOOLEAN, create_example_ignore : BOOLEAN]

\* clone_repository: the directory is made first; only CalledProcessError
\* is handled, by removing the directory and leaving with sys.exit(1).
\* Result: whether the function returns, whether the directory is left on
\* disk, and the exit status when it does not return.
clone_repository(git) ==
    CASE git = "cloned" -> [returns |-> TRUE, temp_dir |-> TRUE, exit |-> -1]
      [] git = "CalledProcessError" -> [returns |-> FALSE, temp_dir |-> FALSE, exit |-> 1]
      [] git = "FileNotFoundError" -> [returns |-> FALSE, temp_dir |-> TRUE, exit |-> 1]

MainIdle ==
    /\ main_args = [repo |-> FALSE, create_example_ignore |-> FALSE]
    /\ world = [git |-> "cloned", process_raises |-> FALSE, write_raises |-> FALSE]
    /\ temp_dir_exists = FALSE
    /\ cleanup_needed = FALSE
    /\ processing_started = FALSE
    /\ pending_exception = FALSE
    /\ exit_code = -1
    /\ mpc = "idle"

InitMain ==
    /\ main_args \in MainArgsPool
    /\ world \in WorldPool
    /\ temp_dir_exists = FALSE
    /\ cleanup_needed = FALSE
    /\ processing_started = FALSE
    /\ pending_exception = FALSE
    /\ exit_code = -1
    /\ mpc = "start"

\* if args.create_example_ignore: ...; sys.exit(0)
MainExampleIgnore ==
    /\ mpc = "start"
    /\ main_args.create_example_ignore
    /\ exit_code' = 0
    /\ mpc' = "exited"
    /\ UNCHANGED <<main_args, world, temp_dir_exists, cleanup_needed, processing_started,
                   pending_exception, notMain>>

\* the patterns are gathered and, under verbose_ignore, printed
MainPatterns ==
    /\ mpc = "start"
    /\ ~main_args.create_example_ignore
    /\ mpc' = "source"
    /\ UNCHANGED <<main_args, world, temp_dir_exists, cleanup_needed, processing_started,
                   pending_exception, exit_code, notMain>>

\* if args.repo: repo_path = clone_repository(args.repo); cleanup_needed = True
MainClone ==
    /\ mpc = "source"
    /\ main_args.repo
    /\ LET r == clone_repository(world.git)
       IN /\ temp_dir_exists' = r.temp_dir
          /\ cleanup_needed' = r.returns
          /\ exit_code' = r.exit
          /\ mpc' = IF r.returns THEN "process" ELSE "exited"
    /\ UNCHANGED <<main_args, world, processing_started, pending_exception, notMain>>

\* else: repo_path = args.local; cleanup_needed = False
MainLocal ==
    /\ mpc = "source"
    /\ ~main_args.repo
    /\ cleanup_needed' = FALSE
    /\ mpc' = "process"
    /\ UNCHANGED <<main_args, world, temp_dir_exists, processing_started, pending_exception,
                   exit_code, notMain>>

\* try: output_chunks = process_repository(repo_path, args, ignore_patterns)
MainProcess ==
    /\ mpc = "process"
    /\ processing_started' = TRUE
    /\ pending_exception' = world.process_raises
    /\ mpc' = IF world.process_raises THEN "finally" ELSE "write"
    /\ UNCHANGED <<main_args, world, temp_dir_exists, cleanup_needed, exit_code, notMain>>

\* write_output(output_chunks, args.output, args)
MainWrite ==
    /\ mpc = "write"
    /\ pending_exception' = world.write_raises
    /\ mpc' = "finally"
    /\ UNCHANGED <<main_args, world, temp_dir_exists, cleanup_needed, processing_started,
                   exit_code, notMain>>

\* finally: if cleanup_needed: shutil.rmtree(repo_path)
MainFinally ==
    /\ mpc = "finally"
    /\ temp_dir_exists' = IF cleanup_needed THEN FALSE ELSE temp_dir_exists
    /\ exit_code' = IF pending_exception THEN 1 ELSE 0
    /\ mpc' = "exited"
    /\ UNCHANGED <<main_args, world, cleanup_needed, processing_started, pending_exception, notMain>>

NextMain ==
    \/ MainExampleIgnore
    \/ MainPatterns
    \/ MainClone
    \/ MainLocal
    \/ MainProcess
    \/ MainWrite
    \/ MainFinally

(***************************************************************************)
(* The specifications: each runs one component from its inputs and leaves  *)
(* the others idle.                                                        *)
(***************************************************************************)
InitSpecChunk == InitChunk /\ PyIdle /\ WalkIdle /\ OptIdle /\ MainIdle

SpecChunk == InitSpecChunk /\ [][NextChunk]_vars

InitSpecPy == InitPy /\ ChunkIdle /\ WalkIdle /\ OptIdle /\ MainIdle

SpecPy == InitSpecPy /\ [][NextPy]_vars

InitSpecIndent == InitIndent /\ ChunkIdle /\ WalkIdle /\ OptIdle /\ MainIdle

SpecIndent == InitSpecIndent /\ [][NextPy]_vars

InitSpecWalk == InitWalk /\ ChunkIdle /\ PyIdle /\ OptIdle /\ MainIdle

SpecWalk == InitSpecWalk /\ [][NextWalk]_vars

InitSpecOpt == InitOpt /\ ChunkIdle /\ PyIdle /\ WalkIdle /\ MainIdle

SpecOpt == InitSpecOpt /\ [][NextOpt]_vars

InitSpecMain == InitMain /\ ChunkIdle /\ PyIdle /\ WalkIdle /\ OptIdle

SpecMain == InitSpecMain /\ [][NextMain]_vars

(***************************************************************************)
(* Claims about the chunk assembler.                                       *)
(***************************************************************************)
ChunkDone == cpc = "done"

\* The chunks before the last one.
SealedEarly == {k \in 1..Len(output_chunks) : k < Len(output_chunks)}

\* The chunks record i has characters in.
ChunksOf(i) == {k \in 1..Len(output_chunks) : i \in Range(output_chunks[k])}

\* A chunk made of exactly one file record.
IsSingleRecord(c) == \E i \in 1..Len(files) : c = files[i]

RecordSizes == {Len(files[i]) : i \in 1..Len(files)}

\* C1: with a bound B > 0, the chunks of process_repository concatenated in
\* order are exactly the text of the bound-0 run on the same records and
\* header, and every record lies whole in exactly one chunk.
C1_ConcatIsUnchunked ==
    (ChunkDone /\ chunk_size > 0) =>
        /\ Concat(output_chunks) = Concat(process_repository(files, repo_header, 0))
        /\ Concat(output_chunks) = repo_header \o Concat(files)
        /\ \A i \in 1..Len(files) : Cardinality(ChunksOf(i)) = 1

C1_Witness ==
    /\ ChunkDone /\ chunk_size > 0
    /\ repo_header # <<>>
    /\ Len(files) >= 3
    /\ Len(output_chunks) >= 3

\* C2 as stated: with B > 0 every chunk but the last has size <= B + the
\* size of one record, and exceeds B only when it is a single record
\* larger than B.
C2_AsStated ==
    (ChunkDone /\ chunk_size > 0) =>
        \A k \in SealedEarly :
            /\ Len(output_chunks[k]) <= chunk_size + Max(RecordSizes)
            /\ Len(output_chunks[k]) > chunk_size => IsSingleRecord(output_chunks[k])

\* C2 amended: with B > 0 every chunk but the last has size <= B, unless it
\* is one file record alone, or the repository header alone, that is
\* itself larger than B.
C2_SealedWithinBound ==
    (ChunkDone /\ chunk_size > 0) =>
        \A k \in SealedEarly :
            Len(output_chunks[k]) > chunk_size =>
                \/ IsSingleRecord(output_chunks[k])
                \/ (k = 1 /\ output_chunks[k] = repo_header)

C2_Witness ==
    /\ ChunkDone /\ chunk_size > 0
    /\ Len(output_chunks) >= 3
    /\ Len(repo_header) > chunk_size
    /\ output_chunks[1] = repo_header
    /\ Len(output_chunks[2]) > chunk_size
    /\ \E k \in SealedEarly : Len(output_chunks[k]) <= chunk_size

\* C3 as stated: with bound 0 exactly one chunk is produced for every
\* input, the empty one included.
C3_AsStated == (ChunkDone /\ chunk_size = 0) => Len(output_chunks) = 1

\* C3 amended: with bound 0 at most one chunk is produced: exactly one,
\* holding the whole text, when there is a header or at least one record,
\* and none when there is neither.
C3_OneChunkUnlessEmpty ==
    (ChunkDone /\ chunk_size = 0) =>
        IF files = <<>> /\ repo_header = <<>>
        THEN output_chunks = <<>>
        ELSE output_chunks = <<repo_header \o Concat(files)>>

C3_Witness ==
    /\ ChunkDone /\ chunk_size = 0
    /\ Len(files) >= 2
    /\ Len(output_chunks) = 1

(***************************************************************************)
(* Claims about optimize_python_code.                                      *)
(***************************************************************************)
\* The triple-quoted strings of a text as Python reads them: a delimiter
\* met outside a string opens one of its style, the next delimiter of the
\* same style closes it, and a delimiter of the other style met inside is
\* content.  OpenAfter is the style open after the tokens of a line
\* ("None": outside any string).
RECURSIVE OpenAfter(_, _)
OpenAfter(line, open) ==
    IF line = <<>> THEN open
    ELSE IF open = "None" /\ Head(line) \in {DQ, SQ} THEN OpenAfter(Tail(line), Head(line))
    ELSE IF open # "None" /\ Head(line) = open THEN OpenAfter(Tail(line), "None")
    ELSE OpenAfter(Tail(line), open)

\* The style open before line i of lines.
RECURSIVE OpenBefore(_, _)
OpenBefore(lines, i) ==
    IF i = 1 THEN "None" ELSE OpenAfter(lines[i - 1], OpenBefore(lines, i - 1))

\* The lines that lie inside a triple-quoted string, its opening and closing
\* lines included.
DocLines(lines) ==
    {i \in 1..Len(lines) : OpenBefore(lines, i) # "None" \/ HasDelimiter(lines[i])}

DelimiterCount(line) == Cardinality({k \in 1..Len(line) : line[k] \in {DQ, SQ}})

\* No line holds more than one delimiter: no string opened and closed on
\* one line, no two styles on one line.
OneDelimiterPerLine(lines) == \A i \in 1..Len(lines) : DelimiterCount(lines[i]) <= 1

EmittedLines == {emitted_from[k] : k \in 1..Len(emitted_from)}

\* C4 as stated: with preserve_docstrings false, no line of a triple-quoted
\* string (its delimiter lines included) is emitted, whatever the input.
C4_AsStated ==
    (ppc # "idle" /\ ~preserve_docstrings) => EmittedLines \cap DocLines(py_lines) = {}

\* C4 amended: with preserve_docstrings false, no line of a triple-quoted
\* string (its delimiter lines included) is emitted, for every input in
\* which no line holds more than one triple-quote delimiter.
C4_NoDocstringLineEmitted ==
    (ppc # "idle" /\ ~preserve_docstrings /\ OneDelimiterPerLine(py_lines)) =>
        EmittedLines \cap DocLines(py_lines) = {}

C4_Witness ==
    /\ ppc = "done" /\ ~preserve_docstrings /\ OneDelimiterPerLine(py_lines)
    /\ Len(py_lines) >= 4
    /\ branch_taken[1] = "open" /\ branch_taken[2] = "inside" /\ branch_taken[3] = "close"
    /\ HasDelimiter(py_lines[2])
    /\ EmittedLines = {4}

\* The lines that toggled the state, and those read in IN_MULTILINE_STRING.
StringLines == {i \in 1..Len(branch_taken) : branch_taken[i] \in {"open", "close", "inside"}}

\* C5: with preserve_docstrings true, every line that toggles the state and
\* every line read in IN_MULTILINE_STRING is emitted exactly once and
\* unchanged, and the emitted lines keep the input order.
C5_StringLinesVerbatim ==
    (ppc # "idle" /\ preserve_docstrings) =>
        /\ \A i \in StringLines :
              /\ Cardinality({k \in 1..Len(emitted_from) : emitted_from[k] = i}) = 1
              /\ \A k \in 1..Len(emitted_from) :
                    emitted_from[k] = i => optimized_lines[k] = py_lines[i]
        /\ \A k \in 1..Len(emitted_from) : \A m \in 1..Len(emitted_from) :
              k < m => emitted_from[k] < emitted_from[m]
        /\ Len(optimized_lines) = Len(emitted_from)

C5_Witness ==
    /\ ppc = "done" /\ preserve_docstrings
    /\ Len(py_lines) >= 4
    /\ branch_taken[1] = "emit" /\ branch_taken[2] = "open"
    /\ branch_taken[3] = "inside" /\ branch_taken[4] = "close"
    /\ py_lines[3] = CodeLine
    /\ OptimizeNormalLine(CodeLine) # CodeLine
    /\ optimized_lines = <<OptimizeNormalLine(py_lines[1]), py_lines[2], py_lines[3], py_lines[4]>>

(***************************************************************************)
(* Claims about the file selector.                                         *)
(***************************************************************************)
Admitted == Range(files_to_process)

\* The files of the directories the traversal visited.
ReachedFiles == UNION {FilesOf2 : FilesOf2 \in {FilesIn(d) : d \in visited}}

\* C6: for a fixed tree, root and configuration, the files returned with the
\* ignore set extended by any pattern p are among the files returned
\* without p (both walks returning).
C6_MonotonicInIgnoreSet ==
    wpc = "done" =>
        \A p \in PatternPool :
            LET more == walk_repository(repo_path, args, ignore_patterns \cup {p}, fault)
            IN ~more.raised => Range(more.files) \subseteq Admitted

C6_Witness ==
    /\ wpc = "done"
    /\ ignore_patterns # {}
    /\ \E p \in PatternPool \ ignore_patterns :
          LET more == walk_repository(repo_path, args, ignore_patterns \cup {p}, fault)
          IN /\ ~more.raised
             /\ Range(more.files) # {}
             /\ Range(more.files) # Admitted
             /\ \E sub \in {dSrc} : DirRemoved(<<>>, sub, args, ignore_patterns \cup {p})
                                      /\ ~DirRemoved(<<>>, sub, args, ignore_patterns)

\* The seven criteria on the path relative to the root.
MeetsCriteria(rel) ==
    LET name == rel[Len(rel)]
        ext == Lower(Suffix(name))
    IN /\ ~path_matches_pattern(PathStr(rel), ignore_patterns)
       /\ ~\E excluded_dir \in args.exclude_dirs : excluded_dir \in Range(rel)
       /\ name \notin args.exclude_files
       /\ Size(rel) <= args.max_file_size
       /\ (args.include_extensions # {} => ext \in args.include_extensions)
       /\ ext \notin args.exclude_extensions
       /\ ~is_binary_file(rel, fault)

\* C7: a file reached by the traversal is admitted if and only if it meets
\* all seven criteria, the pattern and the excluded-directory criteria
\* being about its path relative to the root.
C7_AsStated ==
    wpc = "done" =>
        \A rel \in ReachedFiles : (FilePath(repo_path, rel) \in Admitted) <=> MeetsCriteria(rel)

\* C8: a file that cannot be stat'ed or read is excluded, walk_repository
\* does not raise, and the other files are admitted as without the fault.
C8_AsStated ==
    fault # NoFault =>
        /\ wpc # "raised"
        /\ wpc = "done" =>
              /\ FilePath(repo_path, fault.file) \notin Admitted
              /\ Admitted \ {FilePath(repo_path, fault.file)}
                    = Range(walk_repository(repo_path, args, ignore_patterns, NoFault).files)
                          \ {FilePath(repo_path, fault.file)}

(***************************************************************************)
(* Claims about the JSON optimizer.                                        *)
(***************************************************************************)
\* Whitespace outside the string literals of a text.
RECURSIVE HasSpaceOutsideStrings(_, _)
HasSpaceOutsideStrings(t, inString) ==
    IF t = <<>> THEN FALSE
    ELSE IF Head(t) = Quote THEN HasSpaceOutsideStrings(Tail(t), ~inString)
    ELSE IF IsSpace(Head(t)) /\ ~inString THEN TRUE
    ELSE HasSpaceOutsideStrings(Tail(t), inString)

IsMinifiedJson(t) == json_loads(t).ok /\ ~HasSpaceOutsideStrings(t, FALSE)

\* C9: at level 2 and at level 3, optimize_code_content returns a valid,
\* already minified JSON text of a .json file unchanged.
C9_AsStated ==
    (opc = "done" /\ file_ext = ".json" /\ optimize_level \in {2, 3} /\ IsMinifiedJson(input_content))
        => content = input_content

\* C10: for a .json file whose text does not parse, the level-2 result is
\* the generic transform of the same text under the run's own
\* preserve-comments flag.
C10_AsStated ==
    (opc = "done" /\ file_ext = ".json" /\ optimize_level = 2 /\ ~json_loads(Level1(input_content)).ok)
        => content = optimize_generic_code(Level1(input_content), keep_comments)

(***************************************************************************)
(* Claims about main and clone_repository.                                 *)
(***************************************************************************)
CloneFailed == world.git # "cloned"

\* C11: a run on a remote repository ends with the temporary directory
\* gone, however it ends, and a run whose clone failed ends with a non-zero
\* exit status without having started to process files.
C11_AsStated ==
    (mpc = "exited" /\ main_args.repo /\ ~main_args.create_example_ignore)
        => /\ ~temp_dir_exists
           /\ CloneFailed => (exit_code # 0 /\ ~processing_started)

(***************************************************************************)
(* Claims about the Level-3 transform.                                     *)
(***************************************************************************)
Level2Output == Level2(Level1(input_content), file_ext, keep_comments, keep_docstrings)

\* C12: the Level-3 output of optimize_code_content is the Level-3
\* transform of its Level-2 output when the extension is .json, .css,
\* .scss or .sass, and is the Level-2 output itself for every other
\* extension.
C12_AsStated ==
    (opc = "done" /\ optimize_level = 3)
        => content = IF file_ext \in {".json", ".css", ".scss", ".sass"}
                     THEN SqueezeSpaces(Level2Output)
                     ELSE Level2Output

(***************************************************************************)
(* Claims about the indentation optimize_python_code emits.                *)
(***************************************************************************)
IndentWidth(line) == Len(LeadingSpace(line))

\* C13: of two lines handled in NORMAL state, the one indented more deeply
\* in the input is emitted with the strictly larger indentation, so lines
\* of different input widths are emitted with different widths.
C13_AsStated ==
    ppc = "done" =>
        \A k1, k2 \in 1..Len(optimized_lines) :
            (/\ branch_taken[emitted_from[k1]] = "emit"
             /\ branch_taken[emitted_from[k2]] = "emit"
             /\ IndentWidth(py_lines[emitted_from[k1]]) < IndentWidth(py_lines[emitted_from[k2]]))
                => IndentWidth(optimized_lines[k1]) < IndentWidth(optimized_lines[k2])

(***************************************************************************)
(* Claims about the chunks process_repository returns.                     *)
(***************************************************************************)
\* C14: no chunk of the sequence process_repository returns is empty,
\* whatever the bound, the records and the header.
C14_AsStated ==
    cpc = "done" => \A k \in 1..Len(output_chunks) : output_chunks[k] # <<>>

(***************************************************************************)
(* Claims about the location of the root.                                  *)
(***************************************************************************)
\* The paths of a result relative to the root the walk was given.
RelativeTo(root, paths) == {SubSeq(f, Len(root) + 1, Len(f)) : f \in paths}

\* C15: for the same tree, configuration and ignore patterns, the walk from
\* any other root admits the same root-relative paths (both walks
\* returning).
C15_AsStated ==
    wpc = "done" =>
        \A other_root \in RootPool :
            LET other == walk_repository(other_root, args, ignore_patterns, fault)
            IN ~other.raised =>
                  RelativeTo(other_root, Range(other.files)) = RelativeTo(repo_path, Admitted)

====
